---- MODULE Spec2Model ----
(***************************************************************************)
(* EN-POLE front-end scripts: the chat widget (src/app.js) and the news    *)
(* widget (src/unnamed/part_000), modelled as event-loop state machines.   *)
(* One action is one task of the browser's event loop (an event handler,   *)
(* a timer callback or a network task) together with the microtasks that   *)
(* run before the next task, i.e. the code up to the next await.           *)
(* A text is a sequence of string chunks: a template literal is the        *)
(* concatenation of its chunks, user input is a sequence of characters.    *)
(***************************************************************************)
EXTENDS Integers, Sequences, FiniteSets, TLC

VARIABLES chatValue, chatDisabled, chatFocused, chatLog, chatCalls,
          chatStarted, chatEscaped, chatEvent,
          docNews, newsLoaded, newsContainer, newsCalls, newsStarted,
          intervalTimer, console, newsEscaped, newsRef

chatVars == <<chatValue, chatDisabled, chatFocused, chatLog, chatCalls,
              chatStarted, chatEscaped, chatEvent>>

newsVars == <<docNews, newsLoaded, newsContainer, newsCalls, newsStarted,
              intervalTimer, console, newsEscaped, newsRef>>

vars == <<chatValue, chatDisabled, chatFocused, chatLog, chatCalls,
          chatStarted, chatEscaped, chatEvent,
          docNews, newsLoaded, newsContainer, newsCalls, newsStarted,
          intervalTimer, console, newsEscaped, newsRef>>

----------------------------------------------------------------------------
(* Bounds *)

MaxLen == 2

MaxSubmits == 2

----------------------------------------------------------------------------
(* Texts, errors, network tasks *)

Chars == {" ", "a"}

RECURSIVE SeqsUpTo(_, _)
SeqsUpTo(S, n) ==
  IF n = 0 THEN {<<>>}
  ELSE LET shorter == SeqsUpTo(S, n - 1)
       IN shorter \cup {Append(s, c) : s \in {t \in shorter : Len(t) = n - 1}, c \in S}

InputValues == SeqsUpTo(Chars, MaxLen)

IsSpace(c) == c = " "

RECURSIVE trimStart(_)
trimStart(s) ==
  IF s = <<>> THEN <<>>
  ELSE IF IsSpace(Head(s)) THEN trimStart(Tail(s)) ELSE s

RECURSIVE trimEnd(_)
trimEnd(s) ==
  IF s = <<>> THEN <<>>
  ELSE IF IsSpace(s[Len(s)]) THEN trimEnd(SubSeq(s, 1, Len(s) - 1)) ELSE s

\* mutant: the value is used as typed
trim_AsTyped(s) == s

trim(s) == trimEnd(trimStart(s))

Statuses == {200, 500}

ok(status) == status \in 200..299

StatusText(status) ==
  CASE status = 200 -> "200"
    [] status = 500 -> "500"
    [] OTHER -> "?"

NoErr == [name |-> "none", message |-> <<>>]

Err(name, message) == [name |-> name, message |-> message]

HttpError(status) == Err("Error", <<"Erreur HTTP ", StatusText(status)>>)

NetworkError == Err("TypeError", <<"Failed to fetch">>)

JsonSyntaxError == Err("SyntaxError", <<"Unexpected token in JSON">>)

NullDataError == Err("TypeError", <<"Cannot read properties of null">>)

Returned(v) == [thrown |-> FALSE, err |-> NoErr, value |-> v]

Thrown(e) == [thrown |-> TRUE, err |-> e, value |-> <<>>]

NoTask == [type |-> "none", status |-> 0, data |-> [isNull |-> FALSE, hasReply |-> FALSE, reply |-> <<>>]]

----------------------------------------------------------------------------
(* Chat widget, src/app.js *)

ChatData ==
  { [isNull |-> TRUE,  hasReply |-> FALSE, reply |-> <<>>],
    [isNull |-> FALSE, hasReply |-> FALSE, reply |-> <<>>],
    [isNull |-> FALSE, hasReply |-> TRUE,  reply |-> <<>>],
    [isNull |-> FALSE, hasReply |-> TRUE,  reply |-> <<"ok">>] }

ResponseTask(status) == [NoTask EXCEPT !.type = "response", !.status = status]

NetErrorTask == [NoTask EXCEPT !.type = "neterror"]

BodyTask(data) == [NoTask EXCEPT !.type = "body", !.data = data]

BodyErrorTask == [NoTask EXCEPT !.type = "bodyerror"]

IdleCall == [pc |-> "idle", task |-> NoTask, body |-> <<>>]

ChatIds == 1..MaxSubmits

Outstanding(i) == chatCalls[i].pc \in {"fetch", "json"}

OutstandingCalls == {i \in ChatIds : Outstanding(i)}

\* mutant: the new element is inserted first
addMessage_Prepend(log, sender, message) ==
  <<[sender |-> sender, text |-> message]>> \o log

addMessage(log, sender, message) == Append(log, [sender |-> sender, text |-> message])

FallbackText == <<"Le bot n'a pas repondu.">>

ErrorPrefix == <<"Erreur : impossible de contacter le bot.\n">>

\* mutant: the reply is used whenever the field is present
BotMessage_NoEmptyCheck(data) ==
  IF data.hasReply THEN data.reply ELSE FallbackText

BotMessage(data) ==
  IF data.hasReply /\ data.reply # <<>> THEN data.reply ELSE FallbackText

\* try block, lines 28-36: the awaited fetch settles
ChatTryFetch(task) ==
  IF task.type = "neterror" THEN Thrown(NetworkError)
  ELSE IF ~ok(task.status) THEN Thrown(HttpError(task.status))
  ELSE Returned(<<>>)

\* try block, lines 38-41: the awaited response.json() settles
ChatTryJson(task) ==
  IF task.type = "bodyerror" THEN Thrown(JsonSyntaxError)
  ELSE IF task.data.isNull THEN Thrown(NullDataError)
  ELSE Returned(BotMessage(task.data))

\* mutant: the catch block swallows the error without a message
ChatCatch_Silent(log, r) ==
  IF r.thrown
    THEN [log |-> log, escaped |-> FALSE]
    ELSE [log |-> addMessage(log, "bot", r.value), escaped |-> FALSE]

\* mutant: the catch block drops error.message
ChatCatch_NoErrorText(log, r) ==
  IF r.thrown
    THEN [log |-> addMessage(log, "bot", ErrorPrefix), escaped |-> FALSE]
    ELSE [log |-> addMessage(log, "bot", r.value), escaped |-> FALSE]

\* catch block, lines 43-45, applied to the outcome r of the try block
ChatCatch(log, r) ==
  IF r.thrown
    THEN [log |-> addMessage(log, "bot", ErrorPrefix \o r.err.message), escaped |-> FALSE]
    ELSE [log |-> addMessage(log, "bot", r.value), escaped |-> FALSE]

\* mutant: the finally block does not re-enable the input
ChatFinally_NoEnable == [disabled |-> TRUE, focused |-> FALSE]

\* finally block, lines 45-48
ChatFinally == [disabled |-> FALSE, focused |-> TRUE]

\* the handler runs to completion from an outcome of its try block
ChatComplete(i, r) ==
  /\ chatLog' = ChatCatch(chatLog, r).log
  /\ chatEscaped' = (chatEscaped \/ ChatCatch(chatLog, r).escaped)
  /\ chatDisabled' = ChatFinally.disabled
  /\ chatFocused' = ChatFinally.focused
  /\ chatCalls' = [chatCalls EXCEPT ![i] = [@ EXCEPT !.pc = "done", !.task = NoTask]]

\* the user edits the input field; a disabled control takes no input
UserInput(v) ==
  /\ ~chatDisabled
  /\ chatFocused
  /\ chatValue' = v
  /\ chatEvent' = "other"
  /\ UNCHANGED <<chatDisabled, chatFocused, chatLog, chatCalls, chatStarted, chatEscaped>>
  /\ UNCHANGED newsVars

UserFocus ==
  /\ ~chatDisabled
  /\ ~chatFocused
  /\ chatFocused' = TRUE
  /\ chatEvent' = "other"
  /\ UNCHANGED <<chatValue, chatDisabled, chatLog, chatCalls, chatStarted, chatEscaped>>
  /\ UNCHANGED newsVars

UserBlur ==
  /\ chatFocused
  /\ chatFocused' = FALSE
  /\ chatEvent' = "other"
  /\ UNCHANGED <<chatValue, chatDisabled, chatLog, chatCalls, chatStarted, chatEscaped>>
  /\ UNCHANGED newsVars

\* mutant: line 24 is missing, the input stays enabled
SubmitAccept_NoDisable(userMessage) ==
  /\ chatStarted < MaxSubmits
  /\ chatLog' = addMessage(chatLog, "user", userMessage)
  /\ chatValue' = <<>>
  /\ chatStarted' = chatStarted + 1
  /\ chatCalls' = [chatCalls EXCEPT ![chatStarted + 1] =
                     [pc |-> "fetch", task |-> NoTask, body |-> userMessage]]
  /\ UNCHANGED <<chatDisabled, chatFocused, chatEscaped>>

\* lines 22-24 and the fetch call of line 28
SubmitAccept(userMessage) ==
  /\ chatStarted < MaxSubmits
  /\ chatLog' = addMessage(chatLog, "user", userMessage)
  /\ chatValue' = <<>>
  /\ chatDisabled' = TRUE
  /\ chatFocused' = FALSE
  /\ chatStarted' = chatStarted + 1
  /\ chatCalls' = [chatCalls EXCEPT ![chatStarted + 1] =
                     [pc |-> "fetch", task |-> NoTask, body |-> userMessage]]
  /\ UNCHANGED chatEscaped

\* the submit event of the form, lines 17-32; the form's button can be
\* activated whether or not the input is disabled
ChatSubmit ==
  /\ chatEvent' = "submit"
  /\ LET userMessage == trim(chatValue)
     IN IF userMessage = <<>>
          THEN UNCHANGED <<chatValue, chatDisabled, chatFocused, chatLog, chatCalls,
                           chatStarted, chatEscaped>>
          ELSE SubmitAccept(userMessage)
  /\ UNCHANGED newsVars

\* the bot server answers the POST with a status line and headers
ChatServerRespond(i, status) ==
  /\ chatCalls[i].pc = "fetch"
  /\ chatCalls[i].task = NoTask
  /\ chatCalls' = [chatCalls EXCEPT ![i].task = ResponseTask(status)]
  /\ chatEvent' = "other"
  /\ UNCHANGED <<chatValue, chatDisabled, chatFocused, chatLog, chatStarted, chatEscaped>>
  /\ UNCHANGED newsVars

\* the transport fails before a response
ChatNetworkFail(i) ==
  /\ chatCalls[i].pc = "fetch"
  /\ chatCalls[i].task = NoTask
  /\ chatCalls' = [chatCalls EXCEPT ![i].task = NetErrorTask]
  /\ chatEvent' = "other"
  /\ UNCHANGED <<chatValue, chatDisabled, chatFocused, chatLog, chatStarted, chatEscaped>>
  /\ UNCHANGED newsVars

\* lines 28-36: the fetch promise settles and the handler resumes
ChatFetchSettled(i) ==
  /\ chatCalls[i].pc = "fetch"
  /\ chatCalls[i].task # NoTask
  /\ chatEvent' = "other"
  /\ LET r == ChatTryFetch(chatCalls[i].task)
     IN IF r.thrown
          THEN ChatComplete(i, r)
          ELSE /\ chatCalls' = [chatCalls EXCEPT ![i] = [@ EXCEPT !.pc = "json", !.task = NoTask]]
               /\ UNCHANGED <<chatLog, chatEscaped, chatDisabled, chatFocused>>
  /\ UNCHANGED <<chatValue, chatStarted>>
  /\ UNCHANGED newsVars

\* the body of the reply has arrived and parses as JSON
ChatBodyArrive(i, data) ==
  /\ chatCalls[i].pc = "json"
  /\ chatCalls[i].task = NoTask
  /\ chatCalls' = [chatCalls EXCEPT ![i].task = BodyTask(data)]
  /\ chatEvent' = "other"
  /\ UNCHANGED <<chatValue, chatDisabled, chatFocused, chatLog, chatStarted, chatEscaped>>
  /\ UNCHANGED newsVars

\* the body of the reply is cut short or is not JSON
ChatBodyFail(i) ==
  /\ chatCalls[i].pc = "json"
  /\ chatCalls[i].task = NoTask
  /\ chatCalls' = [chatCalls EXCEPT ![i].task = BodyErrorTask]
  /\ chatEvent' = "other"
  /\ UNCHANGED <<chatValue, chatDisabled, chatFocused, chatLog, chatStarted, chatEscaped>>
  /\ UNCHANGED newsVars

\* lines 38-48: response.json() settles and the handler runs to its end
ChatJsonSettled(i) ==
  /\ chatCalls[i].pc = "json"
  /\ chatCalls[i].task # NoTask
  /\ chatEvent' = "other"
  /\ ChatComplete(i, ChatTryJson(chatCalls[i].task))
  /\ UNCHANGED <<chatValue, chatStarted>>
  /\ UNCHANGED newsVars

ChatInit ==
  /\ chatValue = <<>>
  /\ chatDisabled = FALSE
  /\ chatFocused = FALSE
  /\ chatLog = <<>>
  /\ chatCalls = [i \in ChatIds |-> IdleCall]
  /\ chatStarted = 0
  /\ chatEscaped = FALSE
  /\ chatEvent = "none"

ChatNext ==
  \/ \E v \in InputValues : UserInput(v)
  \/ UserFocus
  \/ UserBlur
  \/ ChatSubmit
  \/ \E i \in ChatIds, status \in Statuses : ChatServerRespond(i, status)
  \/ \E i \in ChatIds : ChatNetworkFail(i)
  \/ \E i \in ChatIds : ChatFetchSettled(i)
  \/ \E i \in ChatIds, data \in ChatData : ChatBodyArrive(i, data)
  \/ \E i \in ChatIds : ChatBodyFail(i)
  \/ \E i \in ChatIds : ChatJsonSettled(i)

----------------------------------------------------------------------------
(* News widget, src/unnamed/part_000 *)

MaxRefresh == 2

DefaultTimeout == 15000

NewsTimeout == 15000

NewsInterval == 120000

\* line 52: the options loadNews passes to fetchWithTimeout
NewsOptions == [hasTimeout |-> TRUE, timeout |-> NewsTimeout]

\* line 39: the timeout option and its default
TimeoutOption(options) ==
  IF options.hasTimeout THEN options.timeout ELSE DefaultTimeout

NewsIds == 1..MaxRefresh

NoTimer == -1

ItemA ==
  [title |-> "A", summary |-> "sa", url |-> "ua", published_at |-> "2024-05-01T10:00:00Z",
   hasSources |-> TRUE, sources |-> <<"afp">>]

ItemB ==
  [title |-> "B", summary |-> "sb", url |-> "ub", published_at |-> "",
   hasSources |-> TRUE, sources |-> <<"afp", "reuters">>]

ItemNoSources ==
  [title |-> "C", summary |-> "sc", url |-> "uc", published_at |-> "2024-05-01T10:00:00Z",
   hasSources |-> FALSE, sources |-> <<>>]

NullData == [isNull |-> TRUE, hasItems |-> FALSE, items |-> <<>>]

ItemLists ==
  { <<>>, <<ItemA>>, <<ItemB>>, <<ItemA, ItemB>>, <<ItemB, ItemA>>,
    <<ItemNoSources>>, <<ItemA, ItemNoSources>> }

\* the decoded bodies the server may send: null, an object without items,
\* and an object with one of the item lists
NewsData ==
  {NullData, [isNull |-> FALSE, hasItems |-> FALSE, items |-> <<>>]}
    \cup {[isNull |-> FALSE, hasItems |-> TRUE, items |-> s] : s \in ItemLists}

NoNewsTask == [type |-> "none", status |-> 0, data |-> NullData]

NewsResponseTask(status) == [NoNewsTask EXCEPT !.type = "response", !.status = status]

NewsNetErrorTask == [NoNewsTask EXCEPT !.type = "neterror"]

NewsBodyTask(data) == [NoNewsTask EXCEPT !.type = "body", !.data = data]

NewsBodyErrorTask == [NoNewsTask EXCEPT !.type = "bodyerror"]

AbortError == Err("AbortError", <<"The user aborted a request.">>)

JoinError == Err("TypeError", <<"Cannot read properties of undefined">>)

\* the promise returned by fetchWithTimeout
PendingPromise == [state |-> "pending", err |-> NoErr, status |-> 0]

Fulfilled(status) == [state |-> "fulfilled", err |-> NoErr, status |-> status]

Rejected(e) == [state |-> "rejected", err |-> e, status |-> 0]

IdleNewsCall ==
  [pc |-> "idle", task |-> NoNewsTask, timer |-> NoTimer, aborted |-> FALSE,
   promise |-> PendingPromise]

Element(kind, content, by) == [kind |-> kind, content |-> content, by |-> by]

LoadingElement(by) == Element("loading", <<"Chargement des actus...">>, by)

EmptyElement(by) ==
  Element("empty",
          <<"Pas de nouvelles informations cette heure-ci, revenez plus tard.">>, by)

ErrorElement(e, by) == Element("error", <<"Erreur chargement actus : ">> \o e.message, by)

\* Array.prototype.join(", ")
RECURSIVE join(_)
join(a) ==
  IF Len(a) = 0 THEN <<>>
  ELSE IF Len(a) = 1 THEN <<a[1]>>
  ELSE <<a[1], ", ">> \o join(Tail(a))

\* new Date(published_at).toLocaleString()
toLocaleString(published_at) ==
  CASE published_at = "2024-05-01T10:00:00Z" -> "01/05/2024 10:00:00"
    [] OTHER -> "Invalid Date"

\* the template literal of lines 27-32
ItemContent(item) ==
  <<"<h3>", item.title, "</h3><p>", item.summary, "</p><a href=", item.url,
    ">Lire l'article</a><small>Publie le ", toLocaleString(item.published_at),
    " - Sources: ">> \o join(item.sources) \o <<"</small>">>

\* lines 13-15
showLoading(by) == <<LoadingElement(by)>>

\* mutant: each block is inserted before the earlier ones
RECURSIVE forEachItem_Prepend(_, _, _)
forEachItem_Prepend(container, items, by) ==
  IF items = <<>> THEN [thrown |-> FALSE, err |-> NoErr, container |-> container]
  ELSE IF ~Head(items).hasSources
    THEN [thrown |-> TRUE, err |-> JoinError, container |-> container]
    ELSE forEachItem_Prepend(<<Element("item", ItemContent(Head(items)), by)>> \o container,
                             Tail(items), by)

\* the forEach of lines 24-34; item.sources.join throws when sources is missing
RECURSIVE forEachItem(_, _, _)
forEachItem(container, items, by) ==
  IF items = <<>> THEN [thrown |-> FALSE, err |-> NoErr, container |-> container]
  ELSE IF ~Head(items).hasSources
    THEN [thrown |-> TRUE, err |-> JoinError, container |-> container]
    ELSE forEachItem(Append(container, Element("item", ItemContent(Head(items)), by)),
                     Tail(items), by)

\* mutant: line 19 tests only !items, an empty array is rendered as no block
displayNews_NoLengthCheck(container, data, by) ==
  IF ~data.hasItems
    THEN [thrown |-> FALSE, err |-> NoErr, container |-> <<EmptyElement(by)>>]
    ELSE forEachItem(<<>>, data.items, by)

\* mutant: line 18 is missing, the blocks are added to the prior content
displayNews_NoReset(container, data, by) ==
  IF ~data.hasItems \/ Len(data.items) = 0
    THEN [thrown |-> FALSE, err |-> NoErr, container |-> <<EmptyElement(by)>>]
    ELSE forEachItem(container, data.items, by)

\* lines 17-35, applied to the container's children
displayNews(container, data, by) ==
  LET reset == <<>>
  IN IF ~data.hasItems \/ Len(data.items) = 0
       THEN [thrown |-> FALSE, err |-> NoErr, container |-> <<EmptyElement(by)>>]
       ELSE forEachItem(reset, data.items, by)

\* mutant: fetchWithTimeout itself rejects a non-success status
fetchWithTimeout_RejectsOnStatus(task, aborted) ==
  IF aborted THEN Rejected(AbortError)
  ELSE IF task.type = "neterror" THEN Rejected(NetworkError)
  ELSE IF ~ok(task.status) THEN Rejected(HttpError(task.status))
  ELSE Fulfilled(task.status)

\* lines 38-47: what the promise of fetchWithTimeout settles to
fetchWithTimeout(task, aborted) ==
  IF aborted THEN Rejected(AbortError)
  ELSE IF task.type = "neterror" THEN Rejected(NetworkError)
  ELSE Fulfilled(task.status)

\* try block, lines 52-53
LoadNewsTryFetch(promise, container) ==
  IF promise.state = "rejected"
    THEN [thrown |-> TRUE, err |-> promise.err, container |-> container]
  ELSE IF ~ok(promise.status)
    THEN [thrown |-> TRUE, err |-> HttpError(promise.status), container |-> container]
  ELSE [thrown |-> FALSE, err |-> NoErr, container |-> container]

\* try block, lines 54-55
LoadNewsTryJson(task, container, by) ==
  IF task.type = "bodyerror"
    THEN [thrown |-> TRUE, err |-> JsonSyntaxError, container |-> container]
  ELSE IF task.data.isNull
    THEN [thrown |-> TRUE, err |-> NullDataError, container |-> container]
  ELSE displayNews(container, task.data, by)

\* mutant: only errors of the fetch are handled, a TypeError is rethrown
LoadNewsCatch_RethrowTypeError(r, log, by) ==
  IF r.thrown /\ r.err.name # "TypeError"
    THEN [container |-> <<ErrorElement(r.err, by)>>,
          console |-> Append(log, [level |-> "error", text |-> r.err.message]),
          escaped |-> FALSE]
    ELSE [container |-> r.container, console |-> log, escaped |-> r.thrown]

\* catch block, lines 56-60
LoadNewsCatch(r, log, by) ==
  IF r.thrown
    THEN [container |-> <<ErrorElement(r.err, by)>>,
          console |-> Append(log, [level |-> "error", text |-> r.err.message]),
          escaped |-> FALSE]
    ELSE [container |-> r.container, console |-> log, escaped |-> FALSE]

\* loadNews runs to its end from an outcome r of its try block
LoadNewsComplete(i, r) ==
  /\ newsContainer' = LoadNewsCatch(r, console, i).container
  /\ console' = LoadNewsCatch(r, console, i).console
  /\ newsEscaped' = (newsEscaped \/ LoadNewsCatch(r, console, i).escaped)

\* lines 49-52 up to the await: showLoading, then fetchWithTimeout arms its timer
LoadNewsStart(i) ==
  /\ newsContainer' = showLoading(i)
  /\ newsCalls' = [newsCalls EXCEPT ![i] =
                     [pc |-> "fetch", task |-> NoNewsTask, timer |-> TimeoutOption(NewsOptions),
                      aborted |-> FALSE, promise |-> PendingPromise]]
  /\ newsStarted' = i

\* mutant: the container is created without looking for an existing one
InitContainer_AlwaysCreate(count) ==
  [count |-> count + 1, ref |-> "created", warn |-> TRUE]

\* lines 3-9: the element newsContainer is bound to, the number of elements
\* with id "news" in the document afterwards, and whether a warning is logged
InitContainer(count) ==
  IF count = 0
    THEN [count |-> 1, ref |-> "created", warn |-> TRUE]
    ELSE [count |-> count, ref |-> "host", warn |-> FALSE]

\* lines 1-11 and 63-65
DOMContentLoaded ==
  /\ ~newsLoaded
  /\ newsLoaded' = TRUE
  /\ docNews' = InitContainer(docNews).count
  /\ newsRef' = InitContainer(docNews).ref
  /\ console' = IF InitContainer(docNews).warn
                  THEN Append(console, [level |-> "warn", text |-> <<"#news absent">>])
                  ELSE console
  /\ LoadNewsStart(1)
  /\ intervalTimer' = NewsInterval
  /\ UNCHANGED newsEscaped
  /\ UNCHANGED chatVars

\* mutant: a one-shot timer (setTimeout) in place of setInterval
IntervalFire_OneShot ==
  /\ newsLoaded
  /\ intervalTimer = 0
  /\ newsStarted < MaxRefresh
  /\ LoadNewsStart(newsStarted + 1)
  /\ intervalTimer' = NoTimer
  /\ UNCHANGED <<newsRef, docNews, newsLoaded, console, newsEscaped>>
  /\ UNCHANGED chatVars

\* line 65: the interval timer calls loadNews and stays armed
IntervalFire ==
  /\ newsLoaded
  /\ intervalTimer = 0
  /\ newsStarted < MaxRefresh
  /\ LoadNewsStart(newsStarted + 1)
  /\ intervalTimer' = NewsInterval
  /\ UNCHANGED <<newsRef, docNews, newsLoaded, console, newsEscaped>>
  /\ UNCHANGED chatVars

\* the news server answers the GET with a status line and headers
NewsServerRespond(i, status) ==
  /\ newsCalls[i].pc = "fetch"
  /\ newsCalls[i].task.type = "none"
  /\ newsCalls' = [newsCalls EXCEPT ![i].task = NewsResponseTask(status)]
  /\ UNCHANGED <<newsRef, docNews, newsLoaded, newsContainer, newsStarted, intervalTimer, console, newsEscaped>>
  /\ UNCHANGED chatVars

NewsNetworkFail(i) ==
  /\ newsCalls[i].pc = "fetch"
  /\ newsCalls[i].task.type = "none"
  /\ newsCalls' = [newsCalls EXCEPT ![i].task = NewsNetErrorTask]
  /\ UNCHANGED <<newsRef, docNews, newsLoaded, newsContainer, newsStarted, intervalTimer, console, newsEscaped>>
  /\ UNCHANGED chatVars

\* mutant: the finally block does not clear the timer
clearTimeout_Missing(timer) == timer

\* line 45
clearTimeout(timer) == NoTimer

\* lines 43-46 and 52-53: fetch settles, the finally clears the timer,
\* loadNews resumes
NewsFetchSettled(i) ==
  /\ newsCalls[i].pc = "fetch"
  /\ newsCalls[i].task.type # "none"
  /\ LET promise == fetchWithTimeout(newsCalls[i].task, FALSE)
         r == LoadNewsTryFetch(promise, newsContainer)
     IN IF r.thrown
          THEN /\ LoadNewsComplete(i, r)
               /\ newsCalls' = [newsCalls EXCEPT ![i] =
                    [@ EXCEPT !.pc = "done", !.task = NoNewsTask, !.timer = clearTimeout(@),
                              !.promise = promise]]
          ELSE /\ newsCalls' = [newsCalls EXCEPT ![i] =
                    [@ EXCEPT !.pc = "json", !.task = NoNewsTask, !.timer = clearTimeout(@),
                              !.promise = promise]]
               /\ UNCHANGED <<newsContainer, console, newsEscaped>>
  /\ UNCHANGED <<newsRef, docNews, newsLoaded, newsStarted, intervalTimer>>
  /\ UNCHANGED chatVars

\* mutant: the timeout callback aborts nothing
TimeoutFire_NoAbort(i) ==
  /\ newsCalls[i].timer = 0
  /\ newsCalls' = [newsCalls EXCEPT ![i].timer = NoTimer]
  /\ UNCHANGED <<newsRef, docNews, newsLoaded, newsContainer, newsStarted, intervalTimer, console, newsEscaped>>
  /\ UNCHANGED chatVars

\* line 41: the timeout callback aborts the request; fetch rejects, the
\* finally clears the timer and loadNews catches the rejection
TimeoutFire(i) ==
  /\ newsCalls[i].timer = 0
  /\ LET promise == fetchWithTimeout(newsCalls[i].task, TRUE)
         r == LoadNewsTryFetch(promise, newsContainer)
     IN /\ LoadNewsComplete(i, r)
        /\ newsCalls' = [newsCalls EXCEPT ![i] =
             [@ EXCEPT !.pc = "done", !.task = NoNewsTask, !.timer = NoTimer,
                       !.aborted = TRUE, !.promise = promise]]
  /\ UNCHANGED <<newsRef, docNews, newsLoaded, newsStarted, intervalTimer>>
  /\ UNCHANGED chatVars

NewsBodyArrive(i, data) ==
  /\ newsCalls[i].pc = "json"
  /\ newsCalls[i].task.type = "none"
  /\ newsCalls' = [newsCalls EXCEPT ![i].task = NewsBodyTask(data)]
  /\ UNCHANGED <<newsRef, docNews, newsLoaded, newsContainer, newsStarted, intervalTimer, console, newsEscaped>>
  /\ UNCHANGED chatVars

NewsBodyFail(i) ==
  /\ newsCalls[i].pc = "json"
  /\ newsCalls[i].task.type = "none"
  /\ newsCalls' = [newsCalls EXCEPT ![i].task = NewsBodyErrorTask]
  /\ UNCHANGED <<newsRef, docNews, newsLoaded, newsContainer, newsStarted, intervalTimer, console, newsEscaped>>
  /\ UNCHANGED chatVars

\* lines 54-60: response.json() settles and loadNews runs to its end
NewsJsonSettled(i) ==
  /\ newsCalls[i].pc = "json"
  /\ newsCalls[i].task.type # "none"
  /\ LoadNewsComplete(i, LoadNewsTryJson(newsCalls[i].task, newsContainer, i))
  /\ newsCalls' = [newsCalls EXCEPT ![i] = [@ EXCEPT !.pc = "done", !.task = NoNewsTask]]
  /\ UNCHANGED <<newsRef, docNews, newsLoaded, newsStarted, intervalTimer>>
  /\ UNCHANGED chatVars

PendingTimers ==
  ({newsCalls[i].timer : i \in NewsIds} \cup {intervalTimer}) \ {NoTimer}

MinOf(S) == CHOOSE m \in S : \A n \in S : m <= n

Elapse(t, d) == IF t = NoTimer THEN NoTimer ELSE t - d

\* time passes until the next timer is due; a due timer and a queued
\* network task run first
Tick ==
  /\ PendingTimers # {}
  /\ 0 \notin PendingTimers
  /\ \A i \in NewsIds : newsCalls[i].task.type = "none"
  /\ LET d == MinOf(PendingTimers)
     IN /\ newsCalls' = [i \in NewsIds |-> [newsCalls[i] EXCEPT !.timer = Elapse(@, d)]]
        /\ intervalTimer' = Elapse(intervalTimer, d)
  /\ UNCHANGED <<newsRef, docNews, newsLoaded, newsContainer, newsStarted, console, newsEscaped>>
  /\ UNCHANGED chatVars

NewsInit ==
  /\ docNews \in {0, 1}
  /\ newsLoaded = FALSE
  /\ newsContainer = <<>>
  /\ newsCalls = [i \in NewsIds |-> IdleNewsCall]
  /\ newsStarted = 0
  /\ intervalTimer = NoTimer
  /\ console = <<>>
  /\ newsEscaped = FALSE
  /\ newsRef = "none"

NewsNext ==
  \/ DOMContentLoaded
  \/ IntervalFire
  \/ \E i \in NewsIds, status \in Statuses : NewsServerRespond(i, status)
  \/ \E i \in NewsIds : NewsNetworkFail(i)
  \/ \E i \in NewsIds : NewsFetchSettled(i)
  \/ \E i \in NewsIds : TimeoutFire(i)
  \/ \E i \in NewsIds, data \in NewsData : NewsBodyArrive(i, data)
  \/ \E i \in NewsIds : NewsBodyFail(i)
  \/ \E i \in NewsIds : NewsJsonSettled(i)
  \/ Tick

----------------------------------------------------------------------------
(* Specifications *)

Init == ChatInit /\ NewsInit

Next == ChatNext \/ NewsNext

Spec == Init /\ [][Next]_vars

ChatSpec == Init /\ [][ChatNext]_vars

NewsSpec == Init /\ [][NewsNext]_vars

\* the event loop runs every queued task; the server owes no answer
ChatFairness ==
  \A i \in ChatIds : WF_vars(ChatFetchSettled(i)) /\ WF_vars(ChatJsonSettled(i))

FairChatSpec == ChatSpec /\ ChatFairness

\* time passes, due timers fire and queued tasks run; the server owes no answer
NewsFairness ==
  /\ WF_vars(DOMContentLoaded)
  /\ WF_vars(Tick)
  /\ WF_vars(IntervalFire)
  /\ \A i \in NewsIds :
       WF_vars(TimeoutFire(i)) /\ WF_vars(NewsFetchSettled(i)) /\ WF_vars(NewsJsonSettled(i))

FairNewsSpec == NewsSpec /\ NewsFairness

----------------------------------------------------------------------------
(* Properties of the chat widget *)

IsBlank(s) == \A k \in 1..Len(s) : s[k] = " "

IsPrefix(s, t) == Len(s) <= Len(t) /\ SubSeq(t, 1, Len(s)) = s

Contains(text, part) ==
  \E k \in 0..(Len(text) - Len(part)) : SubSeq(text, k + 1, k + Len(part)) = part

Last(s) == s[Len(s)]

\* the request of a call has failed: transport error, non-success status,
\* or a body that does not decode
RequestFailed(task) ==
  \/ task.type = "neterror"
  \/ task.type = "response" /\ task.status \notin 200..299
  \/ task.type = "bodyerror"

UnderlyingErrorText(task) ==
  CASE task.type = "neterror" -> <<"Failed to fetch">>
    [] task.type = "response" -> <<"Erreur HTTP ", StatusText(task.status)>>
    [] OTHER -> <<"Unexpected token in JSON">>

\* C1: every accepted chat submission eventually ends with the input
\* re-enabled and focused, whatever the server does (also when it never
\* responds).
C1_SubmissionEventuallyReenabled ==
  chatDisabled ~> (~chatDisabled /\ chatFocused)

\* C2: when the handler resumes on a failed request it appends exactly one
\* bot message containing the underlying error text, re-enables the input,
\* focuses it, and lets no error escape.
C2_FailureAppendsOneBotError ==
  [][\A i \in ChatIds :
       (Outstanding(i) /\ RequestFailed(chatCalls[i].task) /\ chatCalls'[i] # chatCalls[i])
         => /\ chatCalls'[i].pc = "done"
            /\ Len(chatLog') = Len(chatLog) + 1
            /\ IsPrefix(chatLog, chatLog')
            /\ Last(chatLog').sender = "bot"
            /\ Contains(Last(chatLog').text, UnderlyingErrorText(chatCalls[i].task))
            /\ ~chatDisabled'
            /\ chatFocused'
            /\ ~chatEscaped']_vars

C2_Witness ==
  /\ chatLog # <<>>
  /\ Last(chatLog).sender = "bot"
  /\ Contains(Last(chatLog).text, <<"Failed to fetch">>)
  /\ ~chatDisabled
  /\ chatFocused
  /\ \E i \in ChatIds : chatCalls[i].pc = "done"

\* C3: a submit event on an empty or whitespace-only value changes nothing:
\* no message, no request, the input is not disabled.
C3_BlankSubmitChangesNothing ==
  [][(chatEvent' = "submit" /\ IsBlank(chatValue))
       => UNCHANGED <<chatLog, chatCalls, chatStarted, chatDisabled, chatValue,
                      chatFocused, chatEscaped>>]_vars

C3_Witness ==
  /\ chatEvent = "submit"
  /\ chatValue # <<>>
  /\ IsBlank(chatValue)
  /\ ~chatDisabled

\* C4: at most one chat request is outstanding at any time, and while one is
\* outstanding the input is disabled.
C4_AtMostOneOutstanding ==
  /\ Cardinality(OutstandingCalls) <= 1
  /\ OutstandingCalls # {} => chatDisabled

\* a submit event has been handled while a request was outstanding and
\* answered by the server
C4_Witness ==
  /\ chatEvent = "submit"
  /\ \E i \in ChatIds : Outstanding(i) /\ chatCalls[i].task.type # "none"

\* C9: the chat log only grows at its end: every step leaves the previous
\* log as a prefix of the new one.
C9_LogAppendOnly ==
  [][IsPrefix(chatLog, chatLog')]_vars

C9_Witness ==
  /\ Len(chatLog) >= 3
  /\ chatLog[1].sender = "user"
  /\ chatLog[2].sender = "bot"
  /\ chatLog[3].sender = "user"

----------------------------------------------------------------------------
(* Properties of the news widget *)

Active(i) == newsCalls[i].pc \in {"fetch", "json"}

\* C5: a fetchWithTimeout call that has no response when its timer runs out
\* is aborted and rejects to its caller with the abort error, and no call
\* stays pending forever.
C5_TimeoutAbortsAndRejects ==
  /\ [][\A i \in NewsIds :
          (/\ newsCalls[i].promise.state = "pending"
           /\ newsCalls[i].timer = 0
           /\ newsCalls[i].task.type = "none"
           /\ newsCalls'[i].promise.state # "pending")
            => /\ newsCalls'[i].aborted
               /\ newsCalls'[i].promise.state = "rejected"
               /\ newsCalls'[i].promise.err.name = "AbortError"
               /\ newsCalls'[i].timer = NoTimer]_vars
  /\ \A i \in NewsIds :
       (newsCalls[i].pc = "fetch") ~> (newsCalls[i].promise.state # "pending")

C5_Witness ==
  \E i \in NewsIds :
    /\ newsCalls[i].aborted
    /\ newsCalls[i].promise.state = "rejected"
    /\ newsCalls[i].promise.err.name = "AbortError"

\* C6: loadNews starts once at startup and once at every expiry of the
\* 120000 ms interval; the interval stays armed whatever the refreshes do,
\* so every refresh is followed by a later one.
C6_ScheduleSurvivesFailure ==
  /\ [](newsLoaded => intervalTimer \in 0..NewsInterval)
  /\ [][(~newsLoaded /\ newsLoaded')
          => (newsStarted' = 1 /\ Active(1)' /\ intervalTimer' = NewsInterval)]_vars
  /\ [][(intervalTimer = 0 /\ intervalTimer' # 0)
          => /\ newsStarted' = newsStarted + 1
             /\ newsCalls'[newsStarted'].pc = "fetch"
             /\ intervalTimer' = NewsInterval]_vars
  /\ \A n \in 1..(MaxRefresh - 1) : (newsStarted = n) ~> (newsStarted = n + 1)

\* a refresh has failed and a later one has started
C6_Witness ==
  /\ newsStarted = 2
  /\ newsCalls[1].pc = "done"
  /\ newsCalls[1].promise.state = "rejected"
  /\ newsCalls[2].pc = "fetch"

\* C7: every refresh that entered Loading eventually leaves it, also when the
\* headers arrive in time and the body never does.
C7_LoadingEventuallyLeft ==
  \A i \in NewsIds : Active(i) ~> (newsCalls[i].pc = "done")

\* the refresh of call i fails in the step that ends it
RefreshFails(i) ==
  \/ newsCalls[i].pc = "fetch"
  \/ /\ newsCalls[i].pc = "json"
     /\ \/ newsCalls[i].task.type = "bodyerror"
        \/ newsCalls[i].task.data.isNull
        \/ \E k \in 1..Len(newsCalls[i].task.data.items) :
             ~newsCalls[i].task.data.items[k].hasSources

\* C8: a refresh that ends in a failure leaves the container holding only the
\* error message, logs that error, and lets nothing escape loadNews.
C8_FailureRenderedAndLogged ==
  [][\A i \in NewsIds :
       (Active(i) /\ newsCalls'[i].pc = "done" /\ RefreshFails(i))
         => /\ Len(console') = Len(console) + 1
            /\ IsPrefix(console, console')
            /\ Last(console').level = "error"
            /\ Last(console').text # <<>>
            /\ Len(newsContainer') = 1
            /\ newsContainer'[1].kind = "error"
            /\ newsContainer'[1].content
                 = <<"Erreur chargement actus : ">> \o Last(console').text
            /\ ~newsEscaped']_vars

\* the failure was raised while an item was being rendered
C8_Witness ==
  /\ Len(newsContainer) = 1
  /\ newsContainer[1].kind = "error"
  /\ Contains(newsContainer[1].content, <<"Cannot read properties of undefined">>)
  /\ console # <<>>
  /\ Last(console).level = "error"

\* C10: once the widget runs, the container holds the loading placeholder,
\* the "no news" placeholder, one error message, or the item blocks made by
\* one refresh, and nothing else.
C10_FullReplacement ==
  newsLoaded =>
    \/ /\ Len(newsContainer) = 1
       /\ newsContainer[1].kind \in {"loading", "empty", "error"}
    \/ /\ Len(newsContainer) >= 1
       /\ \A k \in 1..Len(newsContainer) :
            /\ newsContainer[k].kind = "item"
            /\ newsContainer[k].by = newsContainer[1].by

\* the blocks of an earlier refresh have been replaced by those of a later one
C10_Witness ==
  /\ Len(newsContainer) = 2
  /\ newsContainer[1].kind = "item"
  /\ newsContainer[1].by = 2
  /\ newsCalls[1].pc = "done"
  /\ newsCalls[1].promise.state = "fulfilled"
  /\ console = <<>>

\* C11: after initialization the document has exactly one element with id
\* "news": a missing one is created once, an existing one is reused, and
\* newsContainer stays bound to that element for every later render.
C11_OneContainer ==
  /\ [](newsLoaded => (docNews = 1 /\ newsRef \in {"host", "created"}))
  /\ [][(~newsLoaded /\ newsLoaded')
          => newsRef' = (IF docNews = 0 THEN "created" ELSE "host")]_vars
  /\ [][newsLoaded => (newsRef' = newsRef /\ docNews' = docNews)]_vars

\* the container was missing, was created, and a later refresh renders into it
C11_Witness ==
  /\ newsLoaded
  /\ newsRef = "created"
  /\ docNews = 1
  /\ newsStarted = 2
  /\ newsContainer # <<>>

\* C12: a settled fetchWithTimeout call has no pending timer: a timer is
\* pending only for a call whose fetch is still awaited.
C12_NoLeakedTimer ==
  \A i \in NewsIds :
    /\ newsCalls[i].promise.state # "pending" => newsCalls[i].timer = NoTimer
    /\ newsCalls[i].timer # NoTimer => newsCalls[i].pc = "fetch"

\* a call settled by a response, its timer cleared before it was due
C12_Witness ==
  \E i \in NewsIds :
    /\ newsCalls[i].promise.state = "fulfilled"
    /\ newsCalls[i].timer = NoTimer
    /\ ~newsCalls[i].aborted

\* C13 as stated: a call answered with a non-success status never returns a
\* response, it fails.
C13_StatusFailsInFetch ==
  \A i \in NewsIds :
    newsCalls[i].promise.state = "fulfilled" => newsCalls[i].promise.status \in 200..299

\* C13 amended: on a non-success status fetchWithTimeout returns the response
\* to its caller; it is loadNews that raises "Erreur HTTP <status>" and ends
\* in the Failed state.
C13_StatusFailsInLoadNews ==
  [][\A i \in NewsIds :
       (/\ newsCalls[i].pc = "fetch"
        /\ newsCalls[i].task.type = "response"
        /\ newsCalls[i].task.status \notin 200..299
        /\ newsCalls'[i].pc # "fetch"
        /\ ~newsCalls'[i].aborted)
         => /\ newsCalls'[i].promise.state = "fulfilled"
            /\ newsCalls'[i].promise.status = newsCalls[i].task.status
            /\ newsCalls'[i].pc = "done"
            /\ Len(newsContainer') = 1
            /\ newsContainer'[1].kind = "error"
            /\ Contains(newsContainer'[1].content,
                        <<"Erreur HTTP ", StatusText(newsCalls[i].task.status)>>)
            /\ ~newsEscaped']_vars

C13_Witness ==
  \E i \in NewsIds :
    /\ newsCalls[i].pc = "done"
    /\ newsCalls[i].promise.state = "fulfilled"
    /\ newsCalls[i].promise.status = 500
    /\ Len(newsContainer) = 1
    /\ newsContainer[1].kind = "error"
    /\ newsContainer[1].by = i

\* the body of call i has arrived and decodes to an object
BodyDecoded(calls, i) ==
  /\ calls[i].pc = "json"
  /\ calls[i].task.type = "body"
  /\ ~calls[i].task.data.isNull

\* C14: displayNews on an empty or a missing item sequence leaves the
\* container with the "no news" placeholder alone.
C14_EmptyOrMissingItems ==
  [][\A i \in NewsIds :
       (/\ BodyDecoded(newsCalls, i)
        /\ (~newsCalls[i].task.data.hasItems \/ newsCalls[i].task.data.items = <<>>)
        /\ newsCalls'[i].pc = "done")
         => /\ Len(newsContainer') = 1
            /\ newsContainer'[1].kind = "empty"
            /\ newsContainer'[1].content
                 = <<"Pas de nouvelles informations cette heure-ci, revenez plus tard.">>
            /\ console' = console]_vars

\* the placeholder is what the second refresh has rendered
C14_Witness ==
  /\ Len(newsContainer) = 1
  /\ newsContainer[1].kind = "empty"
  /\ newsContainer[1].by = 2

\* C15: displayNews on a sequence of at least one item (each a NewsItem, with
\* its sources) leaves exactly one block per item, block k built from item k.
C15_OneBlockPerItemInOrder ==
  [][\A i \in NewsIds :
       LET items == newsCalls[i].task.data.items
       IN (/\ BodyDecoded(newsCalls, i)
           /\ newsCalls[i].task.data.hasItems
           /\ Len(items) >= 1
           /\ \A k \in 1..Len(items) : items[k].hasSources
           /\ newsCalls'[i].pc = "done")
            => /\ Len(newsContainer') = Len(items)
               /\ \A k \in 1..Len(items) :
                    /\ newsContainer'[k].kind = "item"
                    /\ newsContainer'[k].content[2] = items[k].title
                    /\ newsContainer'[k].content[4] = items[k].summary
                    /\ newsContainer'[k].content[6] = items[k].url
                    /\ \A j \in 1..Len(items[k].sources) :
                         \E p \in 1..Len(newsContainer'[k].content) :
                           newsContainer'[k].content[p] = items[k].sources[j]]_vars

C15_Witness ==
  /\ Len(newsContainer) = 2
  /\ newsContainer[1].kind = "item"
  /\ newsContainer[1].content[2] = "B"
  /\ newsContainer[2].kind = "item"
  /\ newsContainer[2].content[2] = "A"

\* C16: when the reply of a chat request decodes to an object, exactly one
\* bot message is appended: the reply field if present and non-empty, the
\* fixed fallback text otherwise.
C16_ReplyOrFallback ==
  [][\A i \in ChatIds :
       (BodyDecoded(chatCalls, i) /\ chatCalls'[i].pc = "done")
         => /\ Len(chatLog') = Len(chatLog) + 1
            /\ IsPrefix(chatLog, chatLog')
            /\ Last(chatLog').sender = "bot"
            /\ Last(chatLog').text =
                 (IF chatCalls[i].task.data.hasReply /\ chatCalls[i].task.data.reply # <<>>
                    THEN chatCalls[i].task.data.reply
                    ELSE <<"Le bot n'a pas repondu.">>)]_vars

\* a reply and a fallback have both been appended
C16_Witness ==
  /\ Len(chatLog) = 4
  /\ chatLog[2] = [sender |-> "bot", text |-> <<"ok">>]
  /\ chatLog[4] = [sender |-> "bot", text |-> <<"Le bot n'a pas repondu.">>]

\* C17: two news refreshes never overlap: at most one loadNews call is
\* between its start and its end at any time.
C17_NoOverlap ==
  Cardinality({i \in NewsIds : Active(i)}) <= 1

\* C18: the chat log alternates user and bot messages, starting with a user
\* message.
C18_LogAlternates ==
  \A k \in 1..Len(chatLog) :
    chatLog[k].sender = (IF k % 2 = 1 THEN "user" ELSE "bot")

\* two complete exchanges, the first of them ended by a failure message
C18_Witness ==
  /\ Len(chatLog) = 4
  /\ Contains(chatLog[2].text, <<"Failed to fetch">>)
  /\ chatLog[3].sender = "user"
  /\ chatLog[4].sender = "bot"

\* C19: the chat input is disabled exactly when a chat request is
\* outstanding.
C19_DisabledIffOutstanding ==
  chatDisabled <=> (OutstandingCalls # {})

\* the input is enabled again after a request, and disabled during the next
C19_Witness ==
  /\ chatCalls[1].pc = "done"
  /\ chatCalls[2].pc = "json"
  /\ chatDisabled

\* C20: once the outcome of a refresh is in the container, nothing made by an
\* earlier-started refresh replaces it.
C20_NeverRegresses ==
  [][(/\ newsContainer # <<>>
      /\ newsContainer[1].kind # "loading"
      /\ newsContainer' # <<>>)
       => newsContainer'[1].by >= newsContainer[1].by]_vars

====
